---- MODULE Spec2Model ----
(***************************************************************************)
(* A model of attr/_make.py: the module-level counter of _CountingAttr,    *)
(* one class whose body calls attr(), the class decorator attributes()     *)
(* with _transform_attrs, _add_repr, _add_cmp, _add_hash and _add_init,    *)
(* the script that _attrs_to_script generates and its execution, the       *)
(* generated comparison, hash and repr methods, and the sentinel NOTHING.  *)
(* The actions are shared; each specification below draws the arguments    *)
(* of attr(), of the decorator and of the calls from the sets that the     *)
(* part of the code it explores depends on.                                *)
(***************************************************************************)
EXTENDS Integers, Sequences, FiniteSets, TLC

\* ------------------------------------------------------------------ bounds
\* attr() calls, of this class and of others, stop at this counter value.
MaxCounter == 4
\* The most attributes a class body declares where the order is explored.
MaxAttrs == 2
\* The most attributes a class body declares where instances are explored.
MaxInitAttrs == 2
\* The most calls of a generated __init__ that are recorded.
MaxCalls == 2
\* The most operations on NOTHING that are recorded.
MaxLog == 2

\* ----------------------------------------------------------- Python values
\* A value is a record of its type's name and an identity within the type.
Value(kind, n) == [kind |-> kind, n |-> n]

\* NOTHING = _Nothing(): the one module-level instance.
NOTHING == Value("_Nothing", 0)

\* An instance of a user-written subclass of _Nothing.
SubNothing == Value("SubOfNothing", 0)

\* None.
NoneVal == Value("NoneType", 0)

\* An int.
IntVal(i) == Value("int", i)

\* Factory(list): an instance of the class Factory whose factory builds lists.
FactoryOfList == Value("Factory", 0)

\* The k-th list that a call of the factory built: a new object each call.
ListObj(k) == Value("list", k)

\* No value of Python: the place of an argument that a call does not pass.
NotPassed == Value("<not passed>", 0)

\* No value of Python: the place of an instance attribute that is not set.
Unset == Value("<unset>", 0)

\* isinstance(v, Factory)
IsFactory(v) == v.kind = "Factory"

\* --------------------------------------------------------------- the names
\* An identifier is the sequence of its characters.
NameX == <<"x">>
NameUX == <<"_", "x">>
NameY == <<"y">>
NameU == <<"_">>
AttrNames == {NameX, NameUX, NameY, NameU}

\* The methods that the decorator sets, as keys of the class dictionary.
CmpNames == {<<"__eq__">>, <<"__ne__">>, <<"__lt__">>, <<"__le__">>,
             <<"__gt__">>, <<"__ge__">>}
MethodNames == {<<"__repr__">>, <<"__hash__">>, <<"__init__">>} \cup CmpNames
DictKeys == AttrNames \cup MethodNames

\* str.lstrip("_")
RECURSIVE lstrip(_)
lstrip(s) ==
    IF s = <<>> THEN s
    ELSE IF Head(s) = "_" THEN lstrip(Tail(s)) ELSE s

\* ------------------------------------------------------------- the entries
\* What a key of the class dictionary is bound to.
Absent == [tag |-> "absent"]
UserFunction == [tag |-> "function", by |-> "user"]

\* _CountingAttr.__init__ with the class counter at cnt.
CountingAttrInit(cnt, default, validator, no_repr, no_cmp, no_hash, no_init) ==
    [tag |-> "_CountingAttr", counter |-> cnt + 1, default |-> default,
     validator |-> validator, no_repr |-> no_repr, no_cmp |-> no_cmp,
     no_hash |-> no_hash, no_init |-> no_init]

\* Attribute.from_counting_attr
from_counting_attr(name, ca) ==
    [tag |-> "Attribute", name |-> name, default |-> ca.default,
     validator |-> ca.validator, no_repr |-> ca.no_repr, no_cmp |-> ca.no_cmp,
     no_hash |-> ca.no_hash, no_init |-> ca.no_init]

VARIABLES
    counter,     \* _CountingAttr.counter
    clsdict,     \* cl.__dict__: key -> entry
    attrs_attrs, \* cl.__attrs_attrs__
    status,      \* "body", or how the decorator ended
    flags,       \* the arguments the decorator was called with
    subclassed,  \* whether class D(C) was defined
    built,       \* how many objects the factory built
    calls,       \* the calls of type.__call__ with the generated __init__
    cmps,        \* the last call of a comparison method
    shown,       \* the last call of __repr__ or __hash__
    nlog         \* the operations on NOTHING

vars == <<counter, clsdict, attrs_attrs, status, flags, subclassed, built,
          calls, cmps, shown, nlog>>

\* ------------------------------------------------------ _transform_attrs
\* Every order in which cl.__dict__.items() may list the keys in S.
RECURSIVE Orders(_)
Orders(S) ==
    IF S = {} THEN {<<>>}
    ELSE UNION {{<<k>> \o p : p \in Orders(S \ {k})} : k \in S}

PresentKeys(d) == {k \in DictKeys : d[k] # Absent}

\* cl.__dict__.items() in the order given, as (name, attr) pairs.
items(d, order) == [i \in 1..Len(order) |-> <<order[i], d[order[i]]>>]

\* isinstance(attr, _CountingAttr), on a pair.
IsCountingAttr(e) == e[2].tag = "_CountingAttr"

\* A sort whose key tells no two pairs apart: the order of the dictionary.
sort_key_unsorted(e) == 0

\* key=lambda e: e[1].counter
sort_key(e) == e[2].counter

\* sorted(s, key=sort_key): a stable ascending sort.
RECURSIVE InsertByKey(_, _)
InsertByKey(e, s) ==
    IF s = <<>> THEN <<e>>
    ELSE IF sort_key(e) <= sort_key(Head(s)) THEN <<e>> \o s
    ELSE <<Head(s)>> \o InsertByKey(e, Tail(s))

RECURSIVE sorted(_)
sorted(s) ==
    IF s = <<>> THEN <<>>
    ELSE InsertByKey(Head(s), sorted(Tail(s)))

\* The guard of the raise: had_default is True and a.default is NOTHING.
MandatoryAfterDefault(had_default, a) == had_default /\ a.default = NOTHING

\* The loop of _transform_attrs from pair i on: the list appended to, the
\* dictionary after each setattr, and whether ValueError was raised.
RECURSIVE TransformLoop(_, _, _, _, _)
TransformLoop(es, i, had_default, acc, d) ==
    IF i > Len(es) THEN [attrs |-> acc, dict |-> d, raised |-> FALSE]
    ELSE LET a == from_counting_attr(es[i][1], es[i][2]) IN
         IF MandatoryAfterDefault(had_default, a)
         THEN [attrs |-> acc, dict |-> d, raised |-> TRUE]
         ELSE TransformLoop(es, i + 1, had_default \/ a.default # NOTHING,
                            Append(acc, a), [d EXCEPT ![a.name] = a])

_transform_attrs(d, order) ==
    TransformLoop(sorted(SelectSeq(items(d, order), IsCountingAttr)),
                  1, FALSE, <<>>, d)

\* ------------------------------------------------------ _attrs_to_script
\* The parameter of the generated __init__ that attribute a gets.
ScriptArg(a) ==
    [name |-> lstrip(a.name),
     default |-> IF a.default # NOTHING /\ ~IsFactory(a.default)
                 THEN "attr_dict[attr_name].default"
                 ELSE IF a.default # NOTHING THEN "NOTHING" ELSE "<none>"]

\* The name the validator line reads the value from.
ValidatorVar(a) == a.name

\* The statements of the generated __init__ that attribute a gets.
ScriptLines(a) ==
    (IF a.validator # "None"
     THEN <<[op |-> "validator", attr |-> a.name, var |-> ValidatorVar(a)]>>
     ELSE <<>>)
    \o
    (IF a.default # NOTHING /\ IsFactory(a.default)
     THEN <<[op |-> "if_not_NOTHING_else_factory", attr |-> a.name,
             var |-> lstrip(a.name)]>>
     ELSE <<[op |-> "assign", attr |-> a.name, var |-> lstrip(a.name)]>>)

RECURSIVE _attrs_to_script(_)
_attrs_to_script(attrs) ==
    IF attrs = <<>> THEN [args |-> <<>>, lines |-> <<>>]
    ELSE LET rest == _attrs_to_script(Tail(attrs)) IN
         [args |-> <<ScriptArg(Head(attrs))>> \o rest.args,
          lines |-> ScriptLines(Head(attrs)) \o rest.lines]

\* compile(script, unique_filename, "exec"): Python rejects a def whose
\* parameter is no identifier, whose parameters repeat a name, or which has a
\* parameter without default after one with a default.
compile(script) ==
    LET args == script.args IN
    IF \/ \E i \in 1..Len(args) : args[i].name = <<>>
       \/ \E i, j \in 1..Len(args) : i < j /\ args[i].name = args[j].name
       \/ \E i, j \in 1..Len(args) :
              i < j /\ args[i].default # "<none>" /\ args[j].default = "<none>"
    THEN "SyntaxError"
    ELSE "ok"

\* ------------------------------------------------------------ the _add_*
\* [a for a in cl.__attrs_attrs__ if not a.no_X]
NotNoRepr(a) == ~a.no_repr
NotNoCmp(a) == ~a.no_cmp
NotNoHash_reads_no_cmp(a) == ~a.no_cmp
NotNoHash(a) == ~a.no_hash
NotNoInit(a) == ~a.no_init

\* A function that the decorator made, closed over its list attrs.
Generated(key, attrs) ==
    [tag |-> "function", by |-> "attrs", name |-> key, attrs |-> attrs]

_add_repr(d, aa) ==
    [d EXCEPT ![<<"__repr__">>] = Generated(<<"__repr__">>, SelectSeq(aa, NotNoRepr))]

_add_cmp(d, aa) ==
    [k \in DictKeys |->
        IF k \in CmpNames THEN Generated(k, SelectSeq(aa, NotNoCmp)) ELSE d[k]]

_add_hash(d, aa) ==
    [d EXCEPT ![<<"__hash__">>] = Generated(<<"__hash__">>, SelectSeq(aa, NotNoHash))]

\* _add_init when compile accepts the script.
_add_init(d, aa) ==
    [d EXCEPT ![<<"__init__">>] =
        [tag |-> "function", by |-> "attrs", name |-> <<"__init__">>,
         attrs |-> SelectSeq(aa, NotNoInit),
         script |-> _attrs_to_script(SelectSeq(aa, NotNoInit))]]

\* ----------------------------------------------------------------- actions
Init ==
    /\ counter = 1
    /\ clsdict = [k \in DictKeys |-> Absent]
    /\ attrs_attrs = <<>>
    /\ status = "body"
    /\ flags = [no_repr |-> FALSE, no_cmp |-> FALSE, no_hash |-> FALSE,
                no_init |-> FALSE]
    /\ subclassed = FALSE
    /\ built = 0
    /\ calls = <<>>
    /\ cmps = <<>>
    /\ shown = <<>>
    /\ nlog = <<>>

\* name = attr(default, validator, no_repr, no_cmp, no_hash, no_init) in the
\* body of the class.
AttrCall(name, default, validator, no_repr, no_cmp, no_hash, no_init) ==
    /\ status = "body"
    /\ counter < MaxCounter
    /\ counter' = counter + 1
    /\ clsdict' = [clsdict EXCEPT ![name] =
           CountingAttrInit(counter, default, validator, no_repr, no_cmp,
                            no_hash, no_init)]
    /\ UNCHANGED <<attrs_attrs, status, flags, subclassed, built, calls, cmps,
                   shown, nlog>>

\* attr() called for another class: only the class counter is shared.
OtherAttrCall ==
    /\ counter < MaxCounter
    /\ counter' = counter + 1
    /\ UNCHANGED <<clsdict, attrs_attrs, status, flags, subclassed, built,
                   calls, cmps, shown, nlog>>

\* def key(self, ...) in the body of the class.
DefineMethod(key) ==
    /\ status = "body"
    /\ clsdict[key] = Absent
    /\ clsdict' = [clsdict EXCEPT ![key] = UserFunction]
    /\ UNCHANGED <<counter, attrs_attrs, status, flags, subclassed, built,
                   calls, cmps, shown, nlog>>

\* wrap(cl) of attributes(no_repr, no_cmp, no_hash, no_init), with the class
\* dictionary listing its keys in any order.
attributes(no_repr, no_cmp, no_hash, no_init) ==
    /\ status = "body"
    /\ \E order \in Orders(PresentKeys(clsdict)) :
       LET t == _transform_attrs(clsdict, order)
           d1 == IF no_repr THEN t.dict ELSE _add_repr(t.dict, t.attrs)
           d2 == IF no_cmp THEN d1 ELSE _add_cmp(d1, t.attrs)
           d3 == IF no_hash THEN d2 ELSE _add_hash(d2, t.attrs)
           ok == no_init \/
                 compile(_attrs_to_script(SelectSeq(t.attrs, NotNoInit))) = "ok"
       IN /\ attrs_attrs' = t.attrs
          /\ flags' = [no_repr |-> no_repr, no_cmp |-> no_cmp,
                       no_hash |-> no_hash, no_init |-> no_init]
          /\ IF t.raised
             THEN /\ status' = "ValueError"
                  /\ clsdict' = t.dict
             ELSE IF ~ok
             THEN /\ status' = "SyntaxError"
                  /\ clsdict' = d3
             ELSE /\ status' = "decorated"
                  /\ clsdict' = IF no_init THEN d3 ELSE _add_init(d3, t.attrs)
    /\ UNCHANGED <<counter, subclassed, built, calls, cmps, shown, nlog>>

\* The parameters of the generated __init__ of the class, if it has one.
HasGeneratedInit(d) ==
    d[<<"__init__">>].tag = "function" /\ d[<<"__init__">>].by = "attrs"
InitArgs(d) == d[<<"__init__">>].script.args
InitLines(d) == d[<<"__init__">>].script.lines

\* The attributes that the body of the class declared so far.
Declared == {k \in AttrNames : clsdict[k].tag = "_CountingAttr"}

\* ------------------------------------------- a call of the generated __init__
\* What a validator does with (attribute, value): instance_of(int) raises
\* TypeError unless the value is an int; returns_false returns False.
validator_raises(validator, a, v) ==
    validator = "instance_of_int" /\ v.kind # "int"

\* The value of parameter i once the call bound its arguments: the argument,
\* else the default that the def gives the parameter.
BoundArg(f, passed, i) ==
    IF passed[i] # NotPassed THEN passed[i]
    ELSE IF f.script.args[i].default = "NOTHING" THEN NOTHING
    ELSE IF f.script.args[i].default = "<none>" THEN NotPassed
    ELSE f.attrs[i].default

\* Reading the name nm in the body: a parameter, else NameError (the globals
\* are NOTHING and attr_dict only).
NameDefined(f, nm) == \E i \in 1..Len(f.script.args) : f.script.args[i].name = nm
ReadName(f, passed, nm) ==
    BoundArg(f, passed, CHOOSE i \in 1..Len(f.script.args) : f.script.args[i].name = nm)

\* attr_dict[attr_name]
attr_dict(f, attr_name) ==
    f.attrs[CHOOSE i \in 1..Len(f.attrs) : f.attrs[i].name = attr_name]

\* The test written against None in place of NOTHING.
TakesFactoryBranch_on_None(v) == v = NoneVal

\* The test "arg_name is not NOTHING" of the Factory lines, negated.
TakesFactoryBranch(v) == v = NOTHING

\* The statements of the body from the l-th on, run on the frame st.
RECURSIVE ExecLines(_, _, _, _)
ExecLines(f, passed, l, st) ==
    IF l > Len(f.script.lines) THEN st
    ELSE LET line == f.script.lines[l] IN
    IF line.op = "validator"
    THEN IF ~NameDefined(f, line.var)
         THEN [st EXCEPT !.outcome = "NameError"]
         ELSE LET a == attr_dict(f, line.attr)
                  v == ReadName(f, passed, line.var)
                  st1 == [st EXCEPT !.vcalls = Append(@, [attribute |-> a, value |-> v])]
              IN IF validator_raises(a.validator, a, v)
                 THEN [st1 EXCEPT !.outcome = "TypeError"]
                 ELSE ExecLines(f, passed, l + 1, st1)
    ELSE IF line.op = "assign"
    THEN ExecLines(f, passed, l + 1,
             [st EXCEPT !.vals[line.attr] = ReadName(f, passed, line.var)])
    ELSE IF TakesFactoryBranch(ReadName(f, passed, line.var))
    THEN ExecLines(f, passed, l + 1,
             [st EXCEPT !.vals[line.attr] = ListObj(st.built + 1),
                        !.built = st.built + 1,
                        !.fcalls = Append(@, line.attr)])
    ELSE ExecLines(f, passed, l + 1,
             [st EXCEPT !.vals[line.attr] = ReadName(f, passed, line.var)])

\* type(passed...): a new instance of the type, and the generated __init__ f
\* run on it; a parameter without default that gets no argument is Python's
\* TypeError before the body runs.
CallInit(f, type, passed, nbuilt) ==
    LET st0 == [type |-> type, passed |-> passed, outcome |-> "ok",
                vals |-> [k \in AttrNames |-> Unset], vcalls |-> <<>>,
                fcalls |-> <<>>, built |-> nbuilt]
    IN IF \E i \in 1..Len(passed) : BoundArg(f, passed, i) = NotPassed
       THEN [st0 EXCEPT !.outcome = "TypeError: missing argument"]
       ELSE ExecLines(f, passed, 1, st0)

\* object.__init__: the class has no __init__ of its own.
CallObjectInit(type, nbuilt) ==
    [type |-> type, passed |-> <<>>, outcome |-> "ok",
     vals |-> [k \in AttrNames |-> Unset], vcalls |-> <<>>, fcalls |-> <<>>,
     built |-> nbuilt]

\* class D(C): pass, after C was decorated.
DefineSubclass ==
    /\ status = "decorated"
    /\ ~subclassed
    /\ subclassed' = TRUE
    /\ UNCHANGED <<counter, clsdict, attrs_attrs, status, flags, built, calls,
                   cmps, shown, nlog>>

\* type(args): C(...) or D(...), D inheriting every method of C.
Call(type, passed) ==
    /\ status = "decorated"
    /\ type = "D" => subclassed
    /\ Len(calls) < MaxCalls
    /\ clsdict[<<"__init__">>] # UserFunction
    /\ LET r == IF HasGeneratedInit(clsdict)
                THEN CallInit(clsdict[<<"__init__">>], type, passed, built)
                ELSE CallObjectInit(type, built)
       IN /\ calls' = Append(calls, r)
          /\ built' = r.built
    /\ UNCHANGED <<counter, clsdict, attrs_attrs, status, flags, subclassed,
                   cmps, shown, nlog>>

\* The argument lists a call may pass: one choice per parameter.
ArgLists(choices) ==
    IF HasGeneratedInit(clsdict)
    THEN [1..Len(InitArgs(clsdict)) -> choices]
    ELSE {<<>>}

\* ------------------------------------------------- the generated methods
\* The object that call c made, and an int that is no instance of any class
\* here.
ObjectOf(c) == [type |-> calls[c].type, vals |-> calls[c].vals]
ForeignObject == [type |-> "int", vals |-> [k \in AttrNames |-> Unset]]

\* isinstance(other, self.__class__) where self.__class__ is t: D is the one
\* subclass of C.
isinstance_of(other, t) ==
    other.type = t \/ (other.type = "D" /\ t = "C")

\* getattr(obj, name): the instance's value, else what the class binds the
\* name to (the Attribute that _transform_attrs set there).
getattr(obj, name) ==
    IF obj.vals[name] # Unset THEN obj.vals[name] ELSE clsdict[name]

\* _attrs_to_tuple(obj, attrs)
_attrs_to_tuple(obj, attrs) ==
    [i \in 1..Len(attrs) |-> getattr(obj, attrs[i].name)]

\* a < b on tuples of ints of one length: at the first difference.
tuple_lt(a, b) ==
    \E i \in 1..Len(a) :
        /\ \A j \in 1..(i - 1) : a[j] = b[j]
        /\ a[i].n < b[i].n

PyBool(b) == IF b THEN "True" ELSE "False"

\* eq(self, other) of _add_cmp, closed over attrs.
eq(attrs, self, other) ==
    IF isinstance_of(other, self.type)
    THEN PyBool(_attrs_to_tuple(self, attrs) = _attrs_to_tuple(other, attrs))
    ELSE "NotImplemented"

\* ne(self, other)
ne(attrs, self, other) ==
    LET result == eq(attrs, self, other) IN
    IF result = "NotImplemented" THEN "NotImplemented"
    ELSE PyBool(result = "False")

\* lt(self, other)
lt(attrs, self, other) ==
    IF isinstance_of(other, self.type)
    THEN PyBool(tuple_lt(_attrs_to_tuple(self, attrs), _attrs_to_tuple(other, attrs)))
    ELSE "NotImplemented"

\* le(self, other)
le(attrs, self, other) ==
    IF isinstance_of(other, self.type)
    THEN PyBool(~tuple_lt(_attrs_to_tuple(other, attrs), _attrs_to_tuple(self, attrs)))
    ELSE "NotImplemented"

\* gt(self, other)
gt(attrs, self, other) ==
    IF isinstance_of(other, self.type)
    THEN PyBool(tuple_lt(_attrs_to_tuple(other, attrs), _attrs_to_tuple(self, attrs)))
    ELSE "NotImplemented"

\* ge(self, other)
ge(attrs, self, other) ==
    IF isinstance_of(other, self.type)
    THEN PyBool(~tuple_lt(_attrs_to_tuple(self, attrs), _attrs_to_tuple(other, attrs)))
    ELSE "NotImplemented"

\* The method that key names, applied.
CmpMethod(key, attrs, self, other) ==
    CASE key = <<"__eq__">> -> eq(attrs, self, other)
      [] key = <<"__ne__">> -> ne(attrs, self, other)
      [] key = <<"__lt__">> -> lt(attrs, self, other)
      [] key = <<"__le__">> -> le(attrs, self, other)
      [] key = <<"__gt__">> -> gt(attrs, self, other)
      [] key = <<"__ge__">> -> ge(attrs, self, other)

\* repr_(self): the class name and name=repr(value) of each of attrs.
repr_(attrs, self) ==
    [cls |-> self.type,
     fields |-> [i \in 1..Len(attrs) |->
                    <<attrs[i].name, getattr(self, attrs[i].name)>>]]

\* hash_(self): the hash of a tuple is taken to tell the tuples apart.
hash_(attrs, self) == _attrs_to_tuple(self, attrs)

IsGenerated(key) ==
    clsdict[key].tag = "function" /\ clsdict[key].by = "attrs"

\* left.key(right) for the instance of call l and the instance of call r, or
\* an int when r is 0.
Compare(key, l, r) ==
    /\ status = "decorated"
    /\ IsGenerated(key)
    /\ calls[l].outcome = "ok"
    /\ r # 0 => calls[r].outcome = "ok"
    /\ LET other == IF r = 0 THEN ForeignObject ELSE ObjectOf(r) IN
       cmps' = <<[method |-> key, left |-> ObjectOf(l), right |-> other,
                  result |-> CmpMethod(key, clsdict[key].attrs, ObjectOf(l), other)]>>
    /\ UNCHANGED <<counter, clsdict, attrs_attrs, status, flags, subclassed,
                   built, calls, shown, nlog>>

\* repr(obj) or hash(obj) for the instance of call c.
Show(key, c) ==
    /\ status = "decorated"
    /\ IsGenerated(key)
    /\ calls[c].outcome = "ok"
    /\ shown' = <<[method |-> key, obj |-> ObjectOf(c),
                   result |-> IF key = <<"__repr__">>
                              THEN repr_(clsdict[key].attrs, ObjectOf(c))
                              ELSE hash_(clsdict[key].attrs, ObjectOf(c))]>>
    /\ UNCHANGED <<counter, clsdict, attrs_attrs, status, flags, subclassed,
                   built, calls, cmps, nlog>>

\* ------------------------------------------------------------- _Nothing
\* _Nothing.__eq__(self, other)
Nothing__eq__(self, other) == self.kind = "_Nothing"

\* _Nothing.__ne__(self, other)
Nothing__ne__(self, other) == ~Nothing__eq__(self, other)

\* NOTHING == v: Python asks v first when v's type is a subclass of NOTHING's.
NothingEquals(v) ==
    IF v.kind = "SubOfNothing" THEN Nothing__eq__(v, NOTHING)
    ELSE Nothing__eq__(NOTHING, v)

\* NOTHING != v
NothingDiffers(v) ==
    IF v.kind = "SubOfNothing" THEN Nothing__ne__(v, NOTHING)
    ELSE Nothing__ne__(NOTHING, v)

\* _Nothing.__copy__(self)
Nothing__copy__(self) == self

\* _Nothing.__deepcopy__(self, _)
Nothing__deepcopy__(self, memo) == self

\* NOTHING == v, NOTHING != v, copy.copy(NOTHING) or copy.deepcopy(NOTHING).
NothingOp(op, v) ==
    /\ Len(nlog) < MaxLog
    /\ nlog' = Append(nlog,
           [op |-> op, arg |-> v,
            result |-> CASE op = "==" -> Value("bool", IF NothingEquals(v) THEN 1 ELSE 0)
                         [] op = "!=" -> Value("bool", IF NothingDiffers(v) THEN 1 ELSE 0)
                         [] op = "copy" -> Nothing__copy__(NOTHING)
                         [] op = "deepcopy" -> Nothing__deepcopy__(NOTHING, v)])
    /\ UNCHANGED <<counter, clsdict, attrs_attrs, status, flags, subclassed,
                   built, calls, cmps, shown>>

\* ---------------------------------------- declaration order and defaults
DefaultChoices == {NOTHING, IntVal(1), FactoryOfList}

NextOrder ==
    \/ \E name \in AttrNames, d \in DefaultChoices :
           /\ Cardinality(Declared \cup {name}) <= MaxAttrs
           /\ AttrCall(name, d, "None", FALSE, FALSE, FALSE, FALSE)
    \/ OtherAttrCall
    \/ DefineMethod(<<"__repr__">>)
    \/ \E no_init \in BOOLEAN : attributes(FALSE, FALSE, FALSE, no_init)

SpecOrder == Init /\ [][NextOrder]_vars

\* ------------------------------------------ defaults and validators in use
InitNames == {NameX, NameUX, NameY}
ValidatorChoices == {"None", "instance_of_int", "returns_false"}
PassChoices == {NotPassed, NOTHING, IntVal(2)}

NextInit ==
    \/ \E name \in InitNames, d \in DefaultChoices, v \in ValidatorChoices :
           /\ name \notin Declared
           /\ Cardinality(Declared) < MaxInitAttrs
           /\ AttrCall(name, d, v, FALSE, FALSE, FALSE, FALSE)
    \/ attributes(FALSE, FALSE, FALSE, FALSE)
    \/ \E passed \in ArgLists(PassChoices) : Call("C", passed)

SpecInit == Init /\ [][NextInit]_vars

\* --------------------------------------------------- comparisons in use
CmpAttrNames == {NameX, NameY}
CmpArgChoices == {IntVal(1), IntVal(2)}

NextCmp ==
    \/ \E name \in CmpAttrNames, no_cmp \in BOOLEAN :
           /\ name \notin Declared
           /\ Cardinality(Declared) < MaxInitAttrs
           /\ AttrCall(name, NOTHING, "None", FALSE, no_cmp, FALSE, FALSE)
    \/ attributes(FALSE, FALSE, FALSE, FALSE)
    \/ DefineSubclass
    \/ \E type \in {"C", "D"}, passed \in ArgLists(CmpArgChoices) : Call(type, passed)
    \/ \E key \in CmpNames, l \in 1..Len(calls), r \in 0..Len(calls) : Compare(key, l, r)

SpecCmp == Init /\ [][NextCmp]_vars

\* ---------------------------------------------------------- flags in use
FlagAttrNames == {NameX, NameY}
UserMethods == {<<"__repr__">>, <<"__init__">>}

NextFlags ==
    \/ \E name \in FlagAttrNames, nr, nc, nh, ni \in BOOLEAN :
           /\ name \notin Declared
           /\ Cardinality(Declared) < MaxInitAttrs
           /\ AttrCall(name, NOTHING, "None", nr, nc, nh, ni)
    \/ \E key \in UserMethods : DefineMethod(key)
    \/ \E nr, nc, nh, ni \in BOOLEAN : attributes(nr, nc, nh, ni)
    \/ \E passed \in ArgLists({IntVal(1)}) : Len(calls) = 0 /\ Call("C", passed)
    \/ \E key \in {<<"__repr__">>, <<"__hash__">>}, c \in 1..Len(calls) : Show(key, c)

SpecFlags == Init /\ [][NextFlags]_vars

\* --------------------------------------------------------- NOTHING in use
NothingArgs == {NOTHING, SubNothing, NoneVal, IntVal(1), FactoryOfList}

NextNothing ==
    \E op \in {"==", "!=", "copy", "deepcopy"}, v \in NothingArgs : NothingOp(op, v)

SpecNothing == Init /\ [][NextNothing]_vars

\* -------------------------------------------- the claims on SpecOrder
\* A step of the decorator, and one in which _transform_attrs returned.
DecoratorStep == status = "body" /\ status' # "body"
TransformReturned == DecoratorStep /\ status' # "ValueError"

\* Some attribute without default was declared after one with a default
\* value or a Factory (declaration order is the order of the counters).
MandatoryDeclaredAfterDefault ==
    \E a, b \in Declared :
        /\ clsdict[a].counter < clsdict[b].counter
        /\ clsdict[a].default # NOTHING
        /\ clsdict[b].default = NOTHING

\* C1: when _transform_attrs returns, cl.__attrs_attrs__ holds exactly one
\* Attribute for each _CountingAttr of the class dictionary, made from it,
\* in ascending order of the counters, whatever the order of the dictionary
\* and whatever attr() calls other classes made in between; and each attr()
\* call gets a counter greater than the counter of every earlier call.
C1_DeclarationOrder ==
    [][/\ TransformReturned =>
            /\ Len(attrs_attrs') = Cardinality(Declared)
            /\ {attrs_attrs'[i].name : i \in 1..Len(attrs_attrs')} = Declared
            /\ \A i \in 1..Len(attrs_attrs') :
                   attrs_attrs'[i] =
                       from_counting_attr(attrs_attrs'[i].name,
                                          clsdict[attrs_attrs'[i].name])
            /\ \A i, j \in 1..Len(attrs_attrs') :
                   i < j => clsdict[attrs_attrs'[i].name].counter
                            < clsdict[attrs_attrs'[j].name].counter
       /\ \A k \in Declared : clsdict[k].counter <= counter
       /\ \A k \in AttrNames :
              (clsdict'[k].tag = "_CountingAttr" /\ clsdict'[k] # clsdict[k])
                  => /\ clsdict'[k].counter > counter
                     /\ clsdict'[k].counter = counter'
                     /\ \A o \in Declared : clsdict[o].counter < clsdict'[k].counter
      ]_vars

\* C1's case: two attributes listed against the order of their names, with a
\* gap in the counters (another class called attr() in between or the name
\* was bound twice), in a class that also defines a method.
C1_Witness ==
    /\ status = "decorated"
    /\ Len(attrs_attrs) = 2
    /\ attrs_attrs[1].name = NameY
    /\ attrs_attrs[2].name = NameX
    /\ counter >= 4
    /\ ~flags.no_init

\* C2: the decorator raises ValueError exactly when an attribute without
\* default is declared after one with a default value or a Factory; else it
\* succeeds, and the generated __init__ has no parameter without default
\* after one with a default.
C2_ValueErrorIffBadOrder ==
    [][DecoratorStep =>
          /\ (status' = "ValueError") <=> MandatoryDeclaredAfterDefault
          /\ ~MandatoryDeclaredAfterDefault =>
                /\ status' = "decorated"
                /\ HasGeneratedInit(clsdict') =>
                      \A i, j \in 1..Len(InitArgs(clsdict')) :
                          i < j => ~(/\ InitArgs(clsdict')[i].default # "<none>"
                                     /\ InitArgs(clsdict')[j].default = "<none>")
      ]_vars

\* The part of C2 that does not rest on compile accepting the script.
C2_ExceptSuccess ==
    [][DecoratorStep =>
          /\ (status' = "ValueError") <=> MandatoryDeclaredAfterDefault
          /\ HasGeneratedInit(clsdict') =>
                \A i, j \in 1..Len(InitArgs(clsdict')) :
                    i < j => ~(/\ InitArgs(clsdict')[i].default # "<none>"
                               /\ InitArgs(clsdict')[j].default = "<none>")
      ]_vars

\* C5: when the decorator is to generate __init__ and _transform_attrs
\* returned, the class gets a generated __init__ with one parameter per
\* attribute, named by the attribute's name without its leading underscores,
\* that assigns the parameter to the attribute of the unstripped name.
C5_UsableInit ==
    (status \in {"decorated", "SyntaxError"} /\ ~flags.no_init) =>
        /\ status = "decorated"
        /\ HasGeneratedInit(clsdict)
        /\ Len(InitArgs(clsdict)) = Len(attrs_attrs)
        /\ \A i \in 1..Len(attrs_attrs) :
               /\ InitArgs(clsdict)[i].name = lstrip(attrs_attrs[i].name)
               /\ \E l \in 1..Len(InitLines(clsdict)) :
                      /\ InitLines(clsdict)[l].op # "validator"
                      /\ InitLines(clsdict)[l].attr = attrs_attrs[i].name
                      /\ InitLines(clsdict)[l].var = lstrip(attrs_attrs[i].name)

\* -------------------------------------------- the claims on SpecInit
\* The calls of the generated __init__ that ran its body, and those that
\* returned.
TheInit == clsdict[<<"__init__">>]
RanBody == {c \in 1..Len(calls) : calls[c].outcome # "TypeError: missing argument"}
Returned == {c \in 1..Len(calls) : calls[c].outcome = "ok"}
WithDefault == {i \in 1..Len(TheInit.attrs) : TheInit.attrs[i].default # NOTHING}
WithValidator == {i \in 1..Len(TheInit.attrs) : TheInit.attrs[i].validator # "None"}
HasValidator(a) == a.validator # "None"

\* How often the factory of the attribute was called in call c.
FactoryCalls(c, name) ==
    Cardinality({k \in 1..Len(calls[c].fcalls) : calls[c].fcalls[k] = name})

\* The value of attribute i that call c stored is the one it was passed, and
\* call c did not call the factory of the attribute.
StoredPassed(c, i) ==
    /\ calls[c].vals[TheInit.attrs[i].name] = calls[c].passed[i]
    /\ FactoryCalls(c, TheInit.attrs[i].name) = 0

\* Call c stored the plain default of attribute i.
StoredDefault(c, i) ==
    /\ calls[c].vals[TheInit.attrs[i].name] = TheInit.attrs[i].default
    /\ FactoryCalls(c, TheInit.attrs[i].name) = 0

\* Call c called the factory of attribute i once and stored its result, an
\* object that no other attribute of any call holds.
StoredFresh(c, i) ==
    /\ FactoryCalls(c, TheInit.attrs[i].name) = 1
    /\ calls[c].vals[TheInit.attrs[i].name].kind = "list"
    /\ \A c2 \in 1..Len(calls), i2 \in 1..Len(TheInit.attrs) :
           <<c2, i2>> # <<c, i>> =>
               calls[c2].vals[TheInit.attrs[i2].name]
                   # calls[c].vals[TheInit.attrs[i].name]

\* C3 as stated: in a call of the generated __init__ that returns, for every
\* attribute with a default, any value passed is stored and the factory is
\* not called; without a value the plain default is stored, or the factory
\* is called once and its result, a new object, is stored.
C3_AnyValuePassedIsStored ==
    HasGeneratedInit(clsdict) =>
        \A c \in Returned, i \in WithDefault :
            /\ calls[c].passed[i] # NotPassed => StoredPassed(c, i)
            /\ (calls[c].passed[i] = NotPassed /\ ~IsFactory(TheInit.attrs[i].default))
                   => StoredDefault(c, i)
            /\ (calls[c].passed[i] = NotPassed /\ IsFactory(TheInit.attrs[i].default))
                   => StoredFresh(c, i)

\* C3 as amended: NOTHING passed for an attribute whose default is a Factory
\* counts as no value passed.
C3_ValuePassedButNothingIsStored ==
    HasGeneratedInit(clsdict) =>
        \A c \in Returned, i \in WithDefault :
            LET nothing_to_factory == /\ calls[c].passed[i] = NOTHING
                                      /\ IsFactory(TheInit.attrs[i].default)
            IN
            /\ (calls[c].passed[i] # NotPassed /\ ~nothing_to_factory)
                   => StoredPassed(c, i)
            /\ (calls[c].passed[i] = NotPassed /\ ~IsFactory(TheInit.attrs[i].default))
                   => StoredDefault(c, i)
            /\ ((calls[c].passed[i] = NotPassed \/ nothing_to_factory)
                    /\ IsFactory(TheInit.attrs[i].default))
                   => StoredFresh(c, i)

\* C3's case: two calls returned; a Factory attribute got no value in one and
\* NOTHING in the other, a plain default was used in one and overridden in
\* the other.
C3_Witness ==
    /\ HasGeneratedInit(clsdict)
    /\ Returned = {1, 2}
    /\ \E i, j \in WithDefault :
           /\ IsFactory(TheInit.attrs[i].default)
           /\ ~IsFactory(TheInit.attrs[j].default)
           /\ calls[1].passed[i] = NotPassed
           /\ calls[2].passed[i] = NOTHING
           /\ calls[1].passed[j] = NotPassed
           /\ calls[2].passed[j] = IntVal(2)

\* The value that call c bound to the parameter of attribute i.
ValuePassed(c, i) == BoundArg(TheInit, calls[c].passed, i)

\* C4: each call of the generated __init__ calls the validator of every
\* attribute that has one, whatever the attribute's name, with the Attribute
\* and the value passed for it; what the validator returns is ignored, and
\* the call ends with an exception only if a validator raised it.
C4_ValidatorsCalled ==
    HasGeneratedInit(clsdict) =>
        \A c \in RanBody :
            LET vs == SelectSeq(TheInit.attrs, HasValidator)
                vc == calls[c].vcalls
            IN /\ Len(vc) <= Len(vs)
               /\ \A k \in 1..Len(vc) :
                      /\ vc[k].attribute = vs[k]
                      /\ \E i \in WithValidator :
                             /\ TheInit.attrs[i] = vs[k]
                             /\ vc[k].value = ValuePassed(c, i)
               /\ calls[c].outcome = "ok" =>
                      /\ Len(vc) = Len(vs)
                      /\ \A k \in 1..Len(vc) :
                             ~validator_raises(vc[k].attribute.validator,
                                               vc[k].attribute, vc[k].value)
               /\ calls[c].outcome # "ok" =>
                      /\ Len(vc) > 0
                      /\ validator_raises(vc[Len(vc)].attribute.validator,
                                          vc[Len(vc)].attribute, vc[Len(vc)].value)

\* C4 for the attributes whose names have no leading underscore.
C4_ExceptUnderscores ==
    (HasGeneratedInit(clsdict)
         /\ \A i \in WithValidator : Head(TheInit.attrs[i].name) # "_")
        => C4_ValidatorsCalled

\* -------------------------------------------- the claims on SpecCmp
\* What comparing the two tuples of values gives under the method.
TupleCompare(key, a, b) ==
    CASE key = <<"__eq__">> -> a = b
      [] key = <<"__ne__">> -> a # b
      [] key = <<"__lt__">> -> tuple_lt(a, b)
      [] key = <<"__le__">> -> tuple_lt(a, b) \/ a = b
      [] key = <<"__gt__">> -> tuple_lt(b, a)
      [] key = <<"__ge__">> -> tuple_lt(b, a) \/ a = b

\* The values of the attributes with no_cmp false, in declaration order.
CmpTuple(obj) ==
    LET used == SelectSeq(attrs_attrs, LAMBDA a : ~a.no_cmp) IN
    [i \in 1..Len(used) |-> obj.vals[used[i].name]]

\* C6: a generated comparison method compares the tuples of the attribute
\* values if the types of the two objects are identical, and returns
\* NotImplemented for every pair of objects of different types, an instance
\* of a subclass included.
C6_IdenticalTypesOnly ==
    \A k \in 1..Len(cmps) :
        /\ cmps[k].left.type = cmps[k].right.type =>
               cmps[k].result =
                   PyBool(TupleCompare(cmps[k].method, CmpTuple(cmps[k].left),
                                       CmpTuple(cmps[k].right)))
        /\ cmps[k].left.type # cmps[k].right.type =>
               cmps[k].result = "NotImplemented"

\* C6 for the pairs in which the right object is no instance of a subclass
\* of the left object's class.
C6_ExceptSubclasses ==
    (\A k \in 1..Len(cmps) : ~(cmps[k].left.type = "C" /\ cmps[k].right.type = "D"))
        => C6_IdenticalTypesOnly

\* -------------------------------------------- the claims on SpecNothing
\* isinstance(v, _Nothing)
IsInstanceOfNothing(v) == v.kind \in {"_Nothing", "SubOfNothing"}

\* C7: NOTHING == v is true exactly when v is an instance of _Nothing, and
\* NOTHING != v is its negation, so NOTHING equals neither None nor any other
\* value a user supplies; copy and deepcopy of NOTHING give NOTHING itself.
C7_NothingEqualsOnlyNothing ==
    \A k \in 1..Len(nlog) :
        /\ nlog[k].op = "==" =>
               (nlog[k].result.n = 1 <=> IsInstanceOfNothing(nlog[k].arg))
        /\ nlog[k].op = "!=" =>
               (nlog[k].result.n = 1 <=> ~IsInstanceOfNothing(nlog[k].arg))
        /\ nlog[k].op \in {"copy", "deepcopy"} => nlog[k].result = NOTHING

\* The parts of C7 on !=, copy and deepcopy: != negates ==.
C7_ExceptEquality ==
    \A k \in 1..Len(nlog) :
        /\ nlog[k].op = "!=" =>
               (nlog[k].result.n = 1 <=> ~NothingEquals(nlog[k].arg))
        /\ nlog[k].op \in {"copy", "deepcopy"} => nlog[k].result = NOTHING

\* -------------------------------------------- the claims on SpecFlags
\* The attributes of the class whose record has the flag false, in the order
\* of cl.__attrs_attrs__.
WithFlagFalse(aa, flag) == SelectSeq(aa, LAMBDA a : ~a[flag])
NamesOf(aa) == [i \in 1..Len(aa) |-> aa[i].name]
NamesOfLines(ls) == [i \in 1..Len(ls) |-> ls[i].attr]

\* The attributes that the statements of a generated __init__ assign, in order.
AssignedNames(lines) ==
    NamesOfLines(SelectSeq(lines, LAMBDA l : l.op # "validator"))

\* The method of the key is one the decorator generated over the list aa.
GeneratedOver(d, key, aa) ==
    /\ d[key].tag = "function"
    /\ d[key].by = "attrs"
    /\ d[key].name = key
    /\ d[key].attrs = aa

\* What holds of the instances made and shown so far.
C8_InUse ==
    /\ \A c \in 1..Len(calls) :
           (HasGeneratedInit(clsdict) /\ calls[c].outcome = "ok") =>
               /\ Len(calls[c].passed) = Len(WithFlagFalse(attrs_attrs, "no_init"))
               /\ \A name \in AttrNames :
                      calls[c].vals[name] # Unset <=>
                          \E i \in 1..Len(attrs_attrs) :
                              /\ attrs_attrs[i].name = name
                              /\ ~attrs_attrs[i].no_init
    /\ \A k \in 1..Len(shown) :
           /\ shown[k].method = <<"__repr__">> =>
                  [i \in 1..Len(shown[k].result.fields) |->
                      shown[k].result.fields[i][1]]
                      = NamesOf(WithFlagFalse(attrs_attrs, "no_repr"))
           /\ shown[k].method = <<"__hash__">> =>
                  shown[k].result =
                      [i \in 1..Len(WithFlagFalse(attrs_attrs, "no_hash")) |->
                          getattr(shown[k].obj,
                                  WithFlagFalse(attrs_attrs, "no_hash")[i].name)]

\* C8: the decorator leaves a method alone when its class-level flag is set,
\* and otherwise the method it generates uses exactly the attributes whose
\* own flag is false, in declaration order: __repr__ shows them, the six
\* comparison methods compare them, __hash__ hashes them, and __init__ takes
\* and sets them.
C8_FlagsSelectAttributes ==
    [][/\ (DecoratorStep /\ status' # "ValueError") =>
            /\ IF flags'.no_repr
               THEN clsdict'[<<"__repr__">>] = clsdict[<<"__repr__">>]
               ELSE GeneratedOver(clsdict', <<"__repr__">>,
                                  WithFlagFalse(attrs_attrs', "no_repr"))
            /\ \A key \in CmpNames :
                   IF flags'.no_cmp
                   THEN clsdict'[key] = clsdict[key]
                   ELSE GeneratedOver(clsdict', key,
                                      WithFlagFalse(attrs_attrs', "no_cmp"))
            /\ IF flags'.no_hash
               THEN clsdict'[<<"__hash__">>] = clsdict[<<"__hash__">>]
               ELSE GeneratedOver(clsdict', <<"__hash__">>,
                                  WithFlagFalse(attrs_attrs', "no_hash"))
            /\ flags'.no_init => clsdict'[<<"__init__">>] = clsdict[<<"__init__">>]
            /\ (~flags'.no_init /\ status' = "decorated") =>
                   /\ HasGeneratedInit(clsdict')
                   /\ NamesOf(clsdict'[<<"__init__">>].attrs)
                          = NamesOf(WithFlagFalse(attrs_attrs', "no_init"))
                   /\ [i \in 1..Len(InitArgs(clsdict')) |-> InitArgs(clsdict')[i].name]
                          = [i \in 1..Len(WithFlagFalse(attrs_attrs', "no_init")) |->
                                lstrip(WithFlagFalse(attrs_attrs', "no_init")[i].name)]
                   /\ AssignedNames(InitLines(clsdict'))
                          = NamesOf(WithFlagFalse(attrs_attrs', "no_init"))
       /\ C8_InUse'
      ]_vars

\* C8's case: two attributes with different flags, a class with a __repr__
\* of its own kept by no_repr, one instance made and its hash taken.
C8_Witness ==
    /\ status = "decorated"
    /\ Len(attrs_attrs) = 2
    /\ attrs_attrs[1].no_hash /\ ~attrs_attrs[2].no_hash
    /\ attrs_attrs[2].no_init /\ ~attrs_attrs[1].no_init
    /\ attrs_attrs[1].no_repr /\ attrs_attrs[2].no_cmp
    /\ flags.no_repr /\ ~flags.no_init /\ ~flags.no_hash
    /\ clsdict[<<"__repr__">>] = UserFunction
    /\ Len(calls) = 1 /\ calls[1].outcome = "ok"
    /\ Len(shown) = 1 /\ shown[1].method = <<"__hash__">>

====
